---- MODULE Spec2Model ----
(***************************************************************************)
(* Model of the AdvancedDroneVisualization component                       *)
(* (src/unnamed/part_000): the React state it keeps (isLoading,            *)
(* errorMessage, elevationData), the memoised values derived from its      *)
(* props, the asynchronous fetchElevationData invocations started by its   *)
(* effect, and the re-gridder terrainData.                                 *)
(*                                                                         *)
(* Numbers.  JavaScript numbers are modelled as fixed-point values with    *)
(* five decimals: the integer n stands for n * 10^-5.  Degrees, metres     *)
(* and elevations are fixed-point; pure factors (scale, the 2 of the       *)
(* neighbour window, array lengths) are plain integers.  Like a double, a  *)
(* number carries a mantissa of limited width, here MantissaBits bits      *)
(* instead of 53: a sum or a quotient is rounded to the nearest value      *)
(* with that many significant bits (ties to even), and to the last of the  *)
(* five decimals.  Differences and products are written exactly: in the    *)
(* model they stay below 2^MantissaBits, where every integer is a value.   *)
(***************************************************************************)
EXTENDS Integers, Sequences, FiniteSets, TLC

VARIABLES
    renders,           \* number of renders with new props so far (history)
    output,            \* what the last render returned
    trackPoints,       \* prop
    bufferDistance,    \* prop
    terrainResolution, \* prop
    centerPoint,       \* useMemo, line 46
    gridPoints,        \* useMemo, line 74 (the features array)
    isLoading,         \* useState, line 34
    errorMessage,      \* useState, line 35
    elevationData,     \* useState, line 36
    calls,             \* the fetchElevationData invocations, in start order
    dataFrom,          \* history: which invocation wrote elevationData, how
    regrid             \* the re-gridder on its own: its inputs and its result

vars == <<renders, output, trackPoints, bufferDistance, terrainResolution,
          centerPoint, gridPoints, isLoading, errorMessage, elevationData,
          calls, dataFrom, regrid>>

----------------------------------------------------------------------------
(* Bounds *)

MaxRenders == 2

MaxBatches == 2

MaxExtra == 0

----------------------------------------------------------------------------
(* Numbers *)

One == 10 ^ 5

Fixed(n) == n * One

\* the difference as it is, without Math.abs
Signed(a) == a

Abs(a) == IF a < 0 THEN -a ELSE a

\* the number NaN, outside the range of the values the model computes with
NaN == -2147483647

\* width of the mantissa of a number (53 in a double)
MantissaBits == 27

RECURSIVE Ulp(_)
\* distance between neighbouring values around the magnitude a
Ulp(a) == IF a < 2 ^ MantissaBits THEN 1 ELSE 2 * Ulp(a \div 2)

\* num / den (den > 0) rounded to the nearest value, ties to even
RoundRatio(num, den) ==
    LET a == Abs(num)
        d == den * Ulp(a \div den)
        q == a \div d
        r == a % d
        up == 2 * r > d \/ (2 * r = d /\ q % 2 = 1)
        m == (IF up THEN q + 1 ELSE q) * Ulp(a \div den)
    IN  IF num < 0 THEN -m ELSE m

\* a + b on JavaScript numbers
Plus(a, b) == RoundRatio(a + b, 1)

\* a / b on JavaScript numbers
Divide(a, b) ==
    IF b = 0 THEN NaN ELSE RoundRatio(a, b)

IsNumber(v) == v \in Int /\ v # NaN

----------------------------------------------------------------------------
(* Inputs: the props the parent may pass *)

\* the first two sample points of App.tsx, and its next three; a track is
\* empty or has the two points turf.lineString needs
TrackA ==
    << [latitude |-> 3777490, longitude |-> -12241940, altitude |-> Fixed(5)],
       [latitude |-> 3777500, longitude |-> -12241900, altitude |-> Fixed(20)] >>

TrackB ==
    << [latitude |-> 3777520, longitude |-> -12241850, altitude |-> Fixed(35)],
       [latitude |-> 3777560, longitude |-> -12241800, altitude |-> Fixed(50)],
       [latitude |-> 3777600, longitude |-> -12241750, altitude |-> Fixed(65)] >>

Tracks == {<< >>, TrackA, TrackB}

BufferDistances == {0, Fixed(150)}

Resolutions == {Fixed(10)}

----------------------------------------------------------------------------
(* turf: buffer, pointGrid, pointsWithinPolygon (library, lines 62-90) *)

BATCH_SIZE == 100

\* lattice spacing in degrees: terrainResolution / 111320, line 81
resolutionDegrees(res) == res \div 111320

LatticeRows == 3

\* k-th point (k >= 1) of the lattice pointGrid lays from the south-west
\* corner, column by column; a feature's coordinates are <<lng, lat>>
LatticePoint(track, res, k) ==
    << track[1].longitude + ((k - 1) \div LatticeRows) * resolutionDegrees(res),
       track[1].latitude + ((k - 1) % LatticeRows) * resolutionDegrees(res) >>

Lattice(track, res, n) == [k \in 1..n |-> LatticePoint(track, res, k)]

\* how many lattice points the model's turf finds inside the buffer: none
\* for a buffer of width 0 (turf.buffer returns no polygon and line 75
\* returns no features), fewer than a batch around the two-point track, and
\* one more than MaxBatches - 1 full batches around a longer one
GridSize(track, buf) ==
    IF buf = 0 THEN 0
    ELSE IF Len(track) <= 2 THEN 2
    ELSE BATCH_SIZE * (MaxBatches - 1) + 1

\* the features of gridPoints for the given props, lines 74-90
pointsInside(track, buf, res) == Lattice(track, res, GridSize(track, buf))

----------------------------------------------------------------------------
(* Pure parts of the component *)

RECURSIVE SumFrom(_, _)
SumFrom(sum, seq) ==
    IF seq = << >> THEN sum ELSE SumFrom(Plus(sum, seq[1]), Tail(seq))

\* Array.prototype.reduce((sum, v) => sum + v, 0)
SumOf(seq) == SumFrom(0, seq)

Undefined == [undefined |-> TRUE]

\* the component, had it lacked the early return of line 43
ShowsPlaceholderNever(track) == FALSE

\* line 43: the early return on an empty track
ShowsPlaceholder(track) == Len(track) = 0

\* the centre taken to be the first point of the track
centerPointOfFirst(track) ==
    [latitude |-> track[1].latitude, longitude |-> track[1].longitude]

\* lines 46-53
centerPointOf(track) ==
    LET sumLat == SumOf([k \in 1..Len(track) |-> track[k].latitude])
        sumLng == SumOf([k \in 1..Len(track) |-> track[k].longitude])
    IN  [latitude  |-> Divide(sumLat, Len(track)),
         longitude |-> Divide(sumLng, Len(track))]

\* the projection with the scale of geoToCartesian (FlightPath, 111000)
convertToRelativeCoordsRescaled(lng, lat, elev, center) ==
    LET scale == 111000
        x == (lng - center.longitude) * scale
        y == (lat - center.latitude) * scale
    IN  [x |-> x, y |-> y, z |-> elev]

\* lines 182-193; centerPoint is the one of the render that calls it
convertToRelativeCoords(lng, lat, elev, center) ==
    LET scale == 111320
        x == (lng - center.longitude) * scale
        y == (lat - center.latitude) * scale
    IN  [x |-> x, y |-> y, z |-> elev]

\* lines 103-109
locationsOf(features) ==
    [k \in 1..Len(features) |->
        [latitude |-> features[k][2], longitude |-> features[k][1]]]

\* slice, had it included the element at index to
SliceInclusive(seq, from, to) ==
    LET last == IF to + 1 < Len(seq) THEN to + 1 ELSE Len(seq)
    IN  [k \in 1..(IF last > from THEN last - from ELSE 0) |-> seq[from + k]]

\* Array.prototype.slice(from, to) with 0-based, end-exclusive indices
Slice(seq, from, to) ==
    LET hi == IF to < Len(seq) THEN to ELSE Len(seq)
    IN  IF from >= hi THEN << >> ELSE [k \in 1..(hi - from) |-> seq[from + k]]

\* lines 162-165: a sum of three sine/cosine products, between -45 and 45
\* metres and determined by (x, y).  The stand-in keeps the range and the
\* dependence on both coordinates.
syntheticElevation(x, y) ==
    Fixed((((x \div One) * 7 + (y \div One) * 13) % 91) - 45)

\* lines 152-172
simulatedDataOf(features, center) ==
    [k \in 1..Len(features) |->
        LET lng == features[k][1]
            lat == features[k][2]
            x == (lng - center.longitude) * 111320
            y == (lat - center.latitude) * 111320
        IN  [longitude |-> lng, latitude |-> lat,
             elevation |-> syntheticElevation(x, y)]]

\* the distinct values, had they been sorted with (a, b) => b - a
SortDescending(S) ==
    CHOOSE seq \in [1..Cardinality(S) -> S] :
        \A a, b \in 1..Cardinality(S) : a < b => seq[a] > seq[b]

RECURSIVE SortAscending(_)
\* Array.from(new Set(values)).sort((a, b) => a - b), lines 230-231
SortAscending(S) ==
    IF S = {} THEN << >>
    ELSE LET least == CHOOSE v \in S : \A w \in S : v <= w
         IN  <<least>> \o SortAscending(S \ {least})

\* line 221: what the memo returns for no samples
EmptyTerrain == [x |-> << >>, y |-> << >>, z |-> << << >> >>]

\* p.elevation as the argument elev of convertToRelativeCoords: line 185
\* gives elev the default 0 when the sample has no elevation
elevationArgument(p) ==
    IF "elevation" \in DOMAIN p THEN p.elevation ELSE 0

\* one cell of zGrid, had the exact match of lines 239-244 been left out
zCellAveraged(points, ux, uy, res) ==
    LET nearby == {k \in DOMAIN points :
                        /\ Abs(points[k].relCoords.x - ux) < res * 2
                        /\ Abs(points[k].relCoords.y - uy) < res * 2
                        /\ points[k].relCoords.x # ux}
        nearbyPoints == SortAscending(nearby)
    IN  IF Len(nearbyPoints) > 0
        THEN Divide(SumOf([n \in DOMAIN nearbyPoints |->
                               points[nearbyPoints[n]].relCoords.z]),
                    Len(nearbyPoints))
        ELSE 0

\* lines 239-258: one cell of zGrid
zCell(points, ux, uy, res) ==
    LET matching == {k \in DOMAIN points :
                        points[k].relCoords.x = ux /\ points[k].relCoords.y = uy}
        nearby == {k \in DOMAIN points :
                        /\ Abs(points[k].relCoords.x - ux) < res * 2
                        /\ Abs(points[k].relCoords.y - uy) < res * 2}
        nearbyPoints == SortAscending(nearby)
    IN  IF matching # {}
        THEN points[CHOOSE k \in matching : \A m \in matching : k <= m].relCoords.z
        ELSE IF Len(nearbyPoints) > 0
             THEN Divide(SumOf([n \in DOMAIN nearbyPoints |->
                                    points[nearbyPoints[n]].relCoords.z]),
                         Len(nearbyPoints))
             ELSE 0

\* the memo, had zGrid been indexed [x-index][y-index]
terrainDataTransposed(data, res, center) ==
    IF Len(data) = 0 THEN EmptyTerrain
    ELSE LET points == [k \in DOMAIN data |->
                 [relCoords |-> convertToRelativeCoords(data[k].longitude,
                                    data[k].latitude, data[k].elevation, center)]]
             uniqueX == SortAscending({points[k].relCoords.x : k \in DOMAIN points})
             uniqueY == SortAscending({points[k].relCoords.y : k \in DOMAIN points})
             zGrid == [j \in DOMAIN uniqueX |->
                          [i \in DOMAIN uniqueY |->
                              zCell(points, uniqueX[j], uniqueY[i], res)]]
         IN  [x |-> uniqueX, y |-> uniqueY, z |-> zGrid]

\* lines 220-268
terrainDataOf(data, res, center) ==
    IF Len(data) = 0 THEN EmptyTerrain
    ELSE LET points == [k \in DOMAIN data |->
                 [sample    |-> data[k],
                  relCoords |-> convertToRelativeCoords(data[k].longitude,
                                    data[k].latitude, elevationArgument(data[k]),
                                    center)]]
             uniqueX == SortAscending({points[k].relCoords.x : k \in DOMAIN points})
             uniqueY == SortAscending({points[k].relCoords.y : k \in DOMAIN points})
             zGrid == [i \in DOMAIN uniqueY |->
                          [j \in DOMAIN uniqueX |->
                              zCell(points, uniqueX[j], uniqueY[i], res)]]
         IN  [x |-> uniqueX, y |-> uniqueY, z |-> zGrid]

----------------------------------------------------------------------------
(* The elevation service *)

\* what the service answers for one batch of locations when it answers in
\* full: real terrain, here at or above 100 metres
serviceResults(batchLocations) ==
    [k \in DOMAIN batchLocations |->
        [latitude  |-> batchLocations[k].latitude,
         longitude |-> batchLocations[k].longitude,
         elevation |-> Fixed(100 + ((batchLocations[k].latitude
                                      + batchLocations[k].longitude) % 50))]]

\* the bodies a response with a success status may carry: no JSON at all,
\* JSON without a results array, a results array that is one entry short
\* of the batch, as long as it, or up to MaxExtra entries longer, or a
\* results array whose entries have no elevation
Payloads ==
    {[kind |-> "parseError"], [kind |-> "noResults"]}
        \cup {[kind |-> "results", extra |-> d, elevations |-> TRUE] :
                d \in -1..MaxExtra}
        \cup {[kind |-> "results", extra |-> 0, elevations |-> FALSE]}

\* data.results of a body that has a results array
resultsOf(payload, batchLocations) ==
    LET full == serviceResults(batchLocations)
    IN  [k \in 1..(Len(full) + payload.extra) |->
            LET entry == IF k <= Len(full) THEN full[k] ELSE full[Len(full)]
            IN  IF payload.elevations
                THEN entry
                ELSE [latitude |-> entry.latitude, longitude |-> entry.longitude]]

\* how the promise returned by fetch settles
FetchOutcomes == {"ok", "status500", "networkError"}

----------------------------------------------------------------------------
(* The component *)

\* the value null of errorMessage; no message the component sets equals it
Null == "null"

FailedMessage == "Failed to fetch elevation data. Using simulated terrain instead."

\* fetchElevationData, had it first awaited a promise that nothing settles
startedCallNeverResuming(features, center) ==
    [gridPoints  |-> features,
     centerPoint |-> center,
     pc          |-> "waiting",
     i           |-> 0,
     allResults  |-> << >>,
     requested   |-> << >>]

\* lines 96-131: fetchElevationData up to its first await
startedCall(features, center) ==
    [gridPoints  |-> features,
     centerPoint |-> center,
     pc          |-> "fetch",
     i           |-> 0,
     allResults  |-> << >>,
     requested   |-> << 0 >>]

\* the effect, had it lacked the guard of line 94
EffectFetchesAlways(features) == TRUE

\* line 94: the effect goes on to call fetchElevationData
EffectFetches(features) == Len(features) # 0

\* first render (mount) and the effect after it
Init ==
    \E track \in Tracks, buf \in BufferDistances, res \in Resolutions :
      /\ renders = 1
      /\ trackPoints = track
      /\ bufferDistance = buf
      /\ terrainResolution = res
      /\ elevationData = << >>
      /\ errorMessage = Null
      /\ dataFrom = [call |-> 0, kind |-> "initial"]
      /\ regrid = Undefined
      /\ IF ShowsPlaceholder(track)
         THEN /\ output = "placeholder"
              /\ centerPoint = Undefined
              /\ gridPoints = Undefined
              /\ isLoading = FALSE
              /\ calls = << >>
         ELSE /\ output = "plot"
              /\ centerPoint = centerPointOf(track)
              /\ gridPoints = pointsInside(track, buf, res)
              /\ isLoading = EffectFetches(gridPoints)
              /\ calls = IF EffectFetches(gridPoints)
                         THEN << startedCall(gridPoints, centerPoint) >>
                         ELSE << >>

\* the parent renders the component again with new props (a new trackPoints
\* array or a changed number), so centerPoint or gridPoints is a new object
\* and the effect of lines 93-179 runs again.  React requires the same hooks
\* on every render, so a mounted component keeps an empty or a non-empty
\* track.
Render(track, buf, res) ==
    /\ renders < MaxRenders
    /\ ShowsPlaceholder(track) = ShowsPlaceholder(trackPoints)
    /\ renders' = renders + 1
    /\ UNCHANGED regrid
    /\ trackPoints' = track
    /\ bufferDistance' = buf
    /\ terrainResolution' = res
    /\ IF ShowsPlaceholder(track)
       THEN /\ output' = "placeholder"
            /\ UNCHANGED <<centerPoint, gridPoints, isLoading, errorMessage,
                           elevationData, calls, dataFrom>>
       ELSE /\ output' = "plot"
            /\ centerPoint' = centerPointOf(track)
            /\ gridPoints' = pointsInside(track, buf, res)
            /\ IF EffectFetches(gridPoints')
               THEN /\ isLoading' = TRUE
                    /\ errorMessage' = Null
                    /\ calls' = Append(calls, startedCall(gridPoints', centerPoint'))
                    /\ UNCHANGED <<elevationData, dataFrom>>
               ELSE UNCHANGED <<isLoading, errorMessage, elevationData,
                                calls, dataFrom, regrid>>

\* the catch block, had it kept the results accumulated before the failure
FallbackKeepsResults(c) ==
    /\ errorMessage' = FailedMessage
    /\ isLoading' = FALSE
    /\ elevationData' =
         LET simulated == simulatedDataOf(calls[c].gridPoints, calls[c].centerPoint)
         IN  [k \in DOMAIN simulated |->
                 IF k <= Len(calls[c].allResults)
                 THEN calls[c].allResults[k]
                 ELSE simulated[k]]
    /\ dataFrom' = [call |-> c, kind |-> "fallback"]
    /\ calls' = [calls EXCEPT ![c].pc = "failed"]

\* lines 146-175: the catch block
Fallback(c) ==
    /\ errorMessage' = FailedMessage
    /\ isLoading' = FALSE
    /\ elevationData' = simulatedDataOf(calls[c].gridPoints, calls[c].centerPoint)
    /\ dataFrom' = [call |-> c, kind |-> "fallback"]
    /\ calls' = [calls EXCEPT ![c].pc = "failed"]

\* line 125 resumes, had line 133 not looked at response.ok
FetchSettlesIgnoringStatus(c, outcome) ==
    /\ calls[c].pc = "fetch"
    /\ IF outcome \in {"ok", "status500"}
       THEN /\ calls' = [calls EXCEPT ![c].pc = "json"]
            /\ UNCHANGED <<isLoading, errorMessage, elevationData, dataFrom>>
       ELSE Fallback(c)
    /\ UNCHANGED <<renders, output, trackPoints, bufferDistance,
                   terrainResolution, centerPoint, gridPoints, regrid>>

\* line 125 resumes: the request of call c settles
FetchSettles(c, outcome) ==
    /\ calls[c].pc = "fetch"
    /\ IF outcome = "ok"
       THEN /\ calls' = [calls EXCEPT ![c].pc = "json"]
            /\ UNCHANGED <<isLoading, errorMessage, elevationData, dataFrom>>
       ELSE Fallback(c)
    /\ UNCHANGED <<renders, output, trackPoints, bufferDistance,
                   terrainResolution, centerPoint, gridPoints, regrid>>

\* line 137 resumes, had the loop gone on to the next batch without the
\* delay of line 141
JsonSettlesWithoutDelay(c, payload) ==
    /\ calls[c].pc = "json"
    /\ IF payload.kind # "results"
       THEN Fallback(c)
       ELSE LET locations == locationsOf(calls[c].gridPoints)
                batchLocations == Slice(locations, calls[c].i, calls[c].i + BATCH_SIZE)
                i == calls[c].i + BATCH_SIZE
            IN  /\ calls' = [calls EXCEPT
                       ![c].allResults = calls[c].allResults
                                           \o resultsOf(payload, batchLocations),
                       ![c].i = IF i < Len(locations) THEN i ELSE @,
                       ![c].pc = IF i < Len(locations) THEN "fetch" ELSE "delay",
                       ![c].requested = IF i < Len(locations)
                                        THEN Append(@, i) ELSE @]
                /\ UNCHANGED <<isLoading, errorMessage, elevationData, dataFrom>>
    /\ UNCHANGED <<renders, output, trackPoints, bufferDistance,
                   terrainResolution, centerPoint, gridPoints, regrid>>

\* line 137 resumes: the body of the response of call c has been read
JsonSettles(c, payload) ==
    /\ calls[c].pc = "json"
    /\ IF payload.kind # "results"
       THEN Fallback(c)
       ELSE LET locations == locationsOf(calls[c].gridPoints)
                batchLocations == Slice(locations, calls[c].i, calls[c].i + BATCH_SIZE)
            IN  /\ calls' = [calls EXCEPT
                       ![c].allResults = calls[c].allResults
                                           \o resultsOf(payload, batchLocations),
                       ![c].pc = "delay"]
                /\ UNCHANGED <<isLoading, errorMessage, elevationData, dataFrom>>
    /\ UNCHANGED <<renders, output, trackPoints, bufferDistance,
                   terrainResolution, centerPoint, gridPoints, regrid>>

\* line 141 resumes, had line 144 stored the results of the last batch only
TimerFiresStoringLastBatch(c) ==
    /\ calls[c].pc = "delay"
    /\ LET i == calls[c].i + BATCH_SIZE
       IN  IF i < Len(locationsOf(calls[c].gridPoints))
           THEN /\ calls' = [calls EXCEPT ![c].i = i,
                                          ![c].pc = "fetch",
                                          ![c].requested = Append(@, i)]
                /\ UNCHANGED <<isLoading, errorMessage, elevationData, dataFrom>>
           ELSE /\ elevationData' = SubSeq(calls[c].allResults, calls[c].i + 1,
                                           Len(calls[c].allResults))
                /\ isLoading' = FALSE
                /\ dataFrom' = [call |-> c, kind |-> "service"]
                /\ calls' = [calls EXCEPT ![c].i = i, ![c].pc = "done"]
                /\ UNCHANGED errorMessage
    /\ UNCHANGED <<renders, output, trackPoints, bufferDistance,
                   terrainResolution, centerPoint, gridPoints, regrid>>

\* line 141 resumes: the 100 ms timer of call c fires; next batch or the end
TimerFires(c) ==
    /\ calls[c].pc = "delay"
    /\ LET i == calls[c].i + BATCH_SIZE
       IN  IF i < Len(locationsOf(calls[c].gridPoints))
           THEN /\ calls' = [calls EXCEPT ![c].i = i,
                                          ![c].pc = "fetch",
                                          ![c].requested = Append(@, i)]
                /\ UNCHANGED <<isLoading, errorMessage, elevationData, dataFrom>>
           ELSE /\ elevationData' = calls[c].allResults
                /\ isLoading' = FALSE
                /\ dataFrom' = [call |-> c, kind |-> "service"]
                /\ calls' = [calls EXCEPT ![c].i = i, ![c].pc = "done"]
                /\ UNCHANGED errorMessage
    /\ UNCHANGED <<renders, output, trackPoints, bufferDistance,
                   terrainResolution, centerPoint, gridPoints, regrid>>

\* the component, had a failed request been issued once more
NextWithRetry ==
    \/ \E track \in Tracks, buf \in BufferDistances, res \in Resolutions :
         Render(track, buf, res)
    \/ \E c \in DOMAIN calls, outcome \in FetchOutcomes : FetchSettles(c, outcome)
    \/ \E c \in DOMAIN calls, payload \in Payloads : JsonSettles(c, payload)
    \/ \E c \in DOMAIN calls : TimerFires(c)
    \/ \E c \in DOMAIN calls :
         /\ calls[c].pc = "fetch"
         /\ Len(calls[c].requested) * BATCH_SIZE = calls[c].i + BATCH_SIZE
         /\ calls' = [calls EXCEPT ![c].requested = Append(@, calls[c].i)]
         /\ UNCHANGED <<renders, output, trackPoints, bufferDistance,
                        terrainResolution, centerPoint, gridPoints, isLoading,
                        errorMessage, elevationData, dataFrom, regrid>>

Next ==
    \/ \E track \in Tracks, buf \in BufferDistances, res \in Resolutions :
         Render(track, buf, res)
    \/ \E c \in DOMAIN calls, outcome \in FetchOutcomes : FetchSettles(c, outcome)
    \/ \E c \in DOMAIN calls, payload \in Payloads : JsonSettles(c, payload)
    \/ \E c \in DOMAIN calls : TimerFires(c)

Spec == Init /\ [][Next]_vars

\* an invocation resumes from one of its awaits (lines 125, 137, 141)
Resumes ==
    \E c \in DOMAIN calls :
        \/ \E outcome \in FetchOutcomes : FetchSettles(c, outcome)
        \/ \E payload \in Payloads : JsonSettles(c, payload)
        \/ TimerFires(c)

\* the invocations followed to their end: the parent stops giving props
\* that start a further invocation once MaxCalls have been started
MaxCalls == 2

RenderFair(track, buf, res) ==
    /\ Render(track, buf, res)
    /\ Len(calls') <= MaxCalls

NextFair ==
    \/ \E track \in Tracks, buf \in BufferDistances, res \in Resolutions :
         RenderFair(track, buf, res)
    \/ Resumes

\* the component when every request is answered or fails, every body is
\* read or fails to parse, and every timer fires: an invocation that waits
\* is resumed
SpecFair == Init /\ [][NextFair]_vars /\ WF_vars(Resumes)

\* lines 220-268: the HeightField of the current render
terrainData == terrainDataOf(elevationData, terrainResolution, centerPoint)

\* lines 196-201: the flight path of the current render (the projection is
\* called without an elevation, which then defaults to 0)
flightPath ==
    [k \in DOMAIN trackPoints |->
        LET relCoords == convertToRelativeCoords(trackPoints[k].longitude,
                             trackPoints[k].latitude, 0, centerPoint)
        IN  [x |-> relCoords.x, y |-> relCoords.y, z |-> trackPoints[k].altitude]]

----------------------------------------------------------------------------
(* The re-gridder as a pure function: terrainData applied to sample       *)
(* sequences of up to MaxSamples samples around the centre of TrackA      *)

MaxSamples == 3

\* 1 m and 10 m, and the resolution at which neighbours on the lattice of
\* SampleChoices are exactly 2 * resolution apart
RegridResolutions == {Fixed(1), Fixed(10), (8 * 111320) \div 2}

\* samples on and off a common lattice, with two elevations
SampleChoices ==
    LET center == centerPointOf(TrackA)
    IN  {[longitude |-> center.longitude + dx,
          latitude  |-> center.latitude + dy,
          elevation |-> e] :
            dx \in {-8, 0, 8}, dy \in {0, 8}, e \in {Fixed(100), Fixed(101)}}

regridOf(data, res, center) ==
    [elevationData     |-> data,
     terrainResolution |-> res,
     centerPoint       |-> center,
     terrainData       |-> terrainDataOf(data, res, center)]

\* the component is idle (no grid, no call) while the re-gridder is applied
InitRegrid ==
    /\ renders = 1
    /\ output = "plot"
    /\ trackPoints = TrackA
    /\ bufferDistance = 0
    /\ terrainResolution \in Resolutions
    /\ centerPoint = centerPointOf(TrackA)
    /\ gridPoints = << >>
    /\ isLoading = FALSE
    /\ errorMessage = Null
    /\ elevationData = << >>
    /\ calls = << >>
    /\ dataFrom = [call |-> 0, kind |-> "initial"]
    /\ \E res \in RegridResolutions :
         regrid = regridOf(<< >>, res, centerPointOf(TrackA))

\* one more sample, and the memo of lines 220-268 computed again
Regrid(sample) ==
    /\ Len(regrid.elevationData) < MaxSamples
    /\ regrid' = regridOf(Append(regrid.elevationData, sample),
                          regrid.terrainResolution, regrid.centerPoint)
    /\ UNCHANGED <<renders, output, trackPoints, bufferDistance,
                   terrainResolution, centerPoint, gridPoints, isLoading,
                   errorMessage, elevationData, calls, dataFrom>>

NextRegrid == \E sample \in SampleChoices : Regrid(sample)

SpecRegrid == InitRegrid /\ [][NextRegrid]_vars

----------------------------------------------------------------------------
(* The centroid as a pure function: centerPoint of tracks of up to         *)
(* MaxTrackLen points whose coordinates fill the mantissa, so that their   *)
(* sum has to be rounded                                                   *)

MaxTrackLen == 3

CentroidPoints ==
    {[latitude |-> lat, longitude |-> lng, altitude |-> Fixed(5)] :
        lat \in {3 * 2 ^ (MantissaBits - 2) + 2, 3 * 2 ^ (MantissaBits - 2) + 6,
                 3 * 2 ^ (MantissaBits - 2) + 8},
        lng \in {-(3 * 2 ^ (MantissaBits - 2) + 4),
                 -(3 * 2 ^ (MantissaBits - 2) + 10)}}

\* the component is mounted on a two-point track with a buffer of width 0:
\* no grid, no call
InitCentroid ==
    /\ renders = 1
    /\ output = "plot"
    /\ trackPoints \in {<<p, q>> : p \in CentroidPoints, q \in CentroidPoints}
    /\ bufferDistance = 0
    /\ terrainResolution \in Resolutions
    /\ centerPoint = centerPointOf(trackPoints)
    /\ gridPoints = << >>
    /\ isLoading = FALSE
    /\ errorMessage = Null
    /\ elevationData = << >>
    /\ calls = << >>
    /\ dataFrom = [call |-> 0, kind |-> "initial"]
    /\ regrid = Undefined

\* the parent passes the track with one more point; lines 46-53 run again
Retrack(point) ==
    /\ Len(trackPoints) < MaxTrackLen
    /\ renders' = renders + 1
    /\ trackPoints' = Append(trackPoints, point)
    /\ centerPoint' = centerPointOf(trackPoints')
    /\ UNCHANGED <<output, bufferDistance, terrainResolution, gridPoints,
                   isLoading, errorMessage, elevationData, calls, dataFrom,
                   regrid>>

NextCentroid == \E point \in CentroidPoints : Retrack(point)

SpecCentroid == InitCentroid /\ [][NextCentroid]_vars

----------------------------------------------------------------------------
(* Claims *)

Finished(c) == calls[c].pc \in {"done", "failed"}

\* what call c has produced once it is finished
resultOf(c) ==
    IF calls[c].pc = "done"
    THEN calls[c].allResults
    ELSE simulatedDataOf(calls[c].gridPoints, calls[c].centerPoint)

\* the elevation is one the fallback computes for the sample's position
IsSynthetic(sample, center) ==
    sample.elevation
        = syntheticElevation((sample.longitude - center.longitude) * 111320,
                             (sample.latitude - center.latitude) * 111320)

\* C1: once every started invocation of fetchElevationData has finished,
\* elevationData holds the result (service data or fallback) of the most
\* recently started one, whichever of them completed last.
C1_LatestCallWins ==
    (calls # << >> /\ \A c \in DOMAIN calls : Finished(c))
        => elevationData = resultOf(Len(calls))

\* C2: the sequence a completed invocation stores in elevationData has one
\* sample per point of the grid it was started on, whatever the service
\* returned with a success status.
C2_OneSamplePerGridPoint ==
    dataFrom.call # 0
        => Len(elevationData) = Len(calls[dataFrom.call].gridPoints)

\* C3: after an invocation has failed at any batch, the results it had
\* accumulated are not in elevationData: elevationData is the synthetic
\* sample of every grid point of that invocation, and elevationData is never
\* a mixture of service and synthetic samples.
C3_FallbackReplacesEverything ==
    /\ dataFrom.kind = "fallback"
         => LET call == calls[dataFrom.call]
            IN  /\ call.pc = "failed"
                /\ Len(elevationData) = Len(call.gridPoints)
                /\ \A k \in DOMAIN elevationData :
                     /\ elevationData[k].longitude = call.gridPoints[k][1]
                     /\ elevationData[k].latitude = call.gridPoints[k][2]
                     /\ IsSynthetic(elevationData[k], call.centerPoint)
    /\ dataFrom.kind = "service"
         => \A k \in DOMAIN elevationData :
              "elevation" \in DOMAIN elevationData[k]
                  => elevationData[k].elevation >= Fixed(100)

\* a call that failed at its second batch, after a first batch of results,
\* has written its fallback
C3_Witness ==
    \E c \in DOMAIN calls :
      /\ calls[c].pc = "failed"
      /\ calls[c].i > 0
      /\ Len(calls[c].allResults) > 0
      /\ dataFrom = [call |-> c, kind |-> "fallback"]

\* C4: whenever the elevationData on display was produced by the synthetic
\* fallback, the degraded-mode notice is active (errorMessage is not null),
\* also after a later invocation has started.
C4_FallbackShowsNotice ==
    dataFrom.kind = "fallback" => errorMessage # Null

\* C5: a non-success status on a batch ends the invocation in the fallback
\* without a further request, and a failed invocation never issues a
\* request for a later batch.
C5_NonSuccessAborts ==
    [][\A c \in DOMAIN calls :
          /\ FetchSettles(c, "status500")
               => /\ calls'[c].pc = "failed"
                  /\ calls'[c].requested = calls[c].requested
                  /\ dataFrom' = [call |-> c, kind |-> "fallback"]
          /\ calls[c].pc = "failed" => calls'[c] = calls[c]]_vars

\* a call on a grid of more than one batch has failed at its first batch and
\* has requested nothing else, while the component went on
C5_Witness ==
    \E c \in DOMAIN calls :
      /\ calls[c].pc = "failed"
      /\ Len(calls[c].gridPoints) > BATCH_SIZE
      /\ calls[c].requested = << 0 >>
      /\ Len(calls) > c

\* C6: a render whose sample grid is empty starts no invocation and leaves
\* isLoading, errorMessage and elevationData as they were.
C6_EmptyGridNoFetch ==
    /\ (renders = 1 /\ output = "plot" /\ Len(gridPoints) = 0)
         => (~isLoading /\ errorMessage = Null /\ elevationData = << >>
             /\ calls = << >>)
    /\ [][(renders' # renders /\ output' = "plot" /\ Len(gridPoints') = 0)
            => UNCHANGED <<isLoading, errorMessage, elevationData, calls,
                           dataFrom>>]_vars

\* the grid became empty while a call was outstanding
C6_Witness ==
    /\ renders > 1
    /\ output = "plot"
    /\ Len(gridPoints) = 0
    /\ isLoading
    /\ \E c \in DOMAIN calls : ~Finished(c)

\* C7: whenever the current sample grid is empty, the HeightField handed to
\* the renderer is the empty one.
C7_EmptyGridEmptySurface ==
    (output = "plot" /\ Len(gridPoints) = 0) => terrainData = EmptyTerrain

\* C8: with an empty track the component returns the placeholder; there is
\* no centroid, no grid, no invocation and no elevation data.
C8_EmptyTrackNoPipeline ==
    Len(trackPoints) = 0
        => /\ output = "placeholder"
           /\ centerPoint = Undefined
           /\ gridPoints = Undefined
           /\ calls = << >>
           /\ ~isLoading
           /\ elevationData = << >>

\* the component was rendered again with an empty track
C8_Witness ==
    /\ Len(trackPoints) = 0
    /\ renders > 1
    /\ output = "placeholder"

\* a HeightField whose matrix has one row per y, one cell per x in every
\* row, and a number in every cell
WellShaped(field) ==
    /\ Len(field.z) = Len(field.y)
    /\ \A i \in DOMAIN field.z :
         /\ Len(field.z[i]) = Len(field.x)
         /\ \A j \in DOMAIN field.z[i] : IsNumber(field.z[i][j])

\* C9 as claimed: the HeightField of every sample sequence, the empty one
\* included, has z.length = ys.length, rows of length xs.length and a number
\* in every cell.
C9_AlwaysWellShaped == WellShaped(regrid.terrainData)

\* C9 amended: the HeightField of every non-empty sample sequence is well
\* shaped; the one of the empty sequence has no xs, no ys and one row,
\* which is empty.
C9_WellShapedUnlessEmpty ==
    IF Len(regrid.elevationData) > 0
    THEN WellShaped(regrid.terrainData)
    ELSE /\ regrid.terrainData.x = << >>
         /\ regrid.terrainData.y = << >>
         /\ Len(regrid.terrainData.z) = 1
         /\ Len(regrid.terrainData.z[1]) = Len(regrid.terrainData.x)

\* three samples of which two share neither x nor y: the field has cells
\* without a sample
C9_Witness ==
    /\ Len(regrid.elevationData) = 3
    /\ Len(regrid.terrainData.x) = 3
    /\ Len(regrid.terrainData.y) = 2
    /\ \E i \in 1..2, j \in 1..3 : regrid.terrainData.z[i][j] = 0

\* C10: the HeightField of no sample is the empty one (no xs, no ys, one
\* empty row); the HeightField of one sample is 1x1, its cell the sample's
\* elevation, its xs and ys the sample's projected x and y.
C10_EmptyAndSingle ==
    /\ Len(regrid.elevationData) = 0
         => regrid.terrainData = [x |-> << >>, y |-> << >>, z |-> << << >> >>]
    /\ Len(regrid.elevationData) = 1
         => LET sample == regrid.elevationData[1]
                center == regrid.centerPoint
            IN  regrid.terrainData =
                  [x |-> << (sample.longitude - center.longitude) * 111320 >>,
                   y |-> << (sample.latitude - center.latitude) * 111320 >>,
                   z |-> << << sample.elevation >> >>]

\* one sample away from the centre has been re-gridded
C10_Witness ==
    /\ Len(regrid.elevationData) = 1
    /\ regrid.elevationData[1].longitude # regrid.centerPoint.longitude
    /\ regrid.elevationData[1].latitude # regrid.centerPoint.latitude
    /\ regrid.terrainData.z = << << regrid.elevationData[1].elevation >> >>

\* C11: a response with a success status but without the expected results
\* array of {latitude, longitude, elevation} entries is treated as a failed
\* fetch: its entries are never accumulated, and no sample without an
\* elevation is ever stored in elevationData.
C11_MalformedIsFailure ==
    /\ \A c \in DOMAIN calls : \A k \in DOMAIN calls[c].allResults :
         "elevation" \in DOMAIN calls[c].allResults[k]
    /\ \A k \in DOMAIN elevationData : "elevation" \in DOMAIN elevationData[k]

\* C12: the centroid of a non-empty track lies within the closed bounding
\* box of the track: between the least and the greatest latitude, and
\* between the least and the greatest longitude.
C12_CentroidInBoundingBox ==
    output = "plot"
        => /\ \E k \in DOMAIN trackPoints :
                trackPoints[k].latitude <= centerPoint.latitude
           /\ \E k \in DOMAIN trackPoints :
                centerPoint.latitude <= trackPoints[k].latitude
           /\ \E k \in DOMAIN trackPoints :
                trackPoints[k].longitude <= centerPoint.longitude
           /\ \E k \in DOMAIN trackPoints :
                centerPoint.longitude <= trackPoints[k].longitude

\* C13: the projection is linear and origin-preserving: the centroid's own
\* longitude and latitude with vertical value 0 project to (0, 0, 0), and
\* every point projects to x = (longitude - centroid.longitude) * 111320,
\* y = (latitude - centroid.latitude) * 111320, with the third input as z.
\* Checked on the calls the component makes: the flight path (lines 196-201)
\* and the samples of the surface (line 224).
C13_ProjectionLinear ==
    output = "plot"
        => /\ convertToRelativeCoords(centerPoint.longitude,
                  centerPoint.latitude, 0, centerPoint) = [x |-> 0, y |-> 0, z |-> 0]
           /\ \A k \in DOMAIN trackPoints :
                /\ flightPath[k].x
                     = (trackPoints[k].longitude - centerPoint.longitude) * 111320
                /\ flightPath[k].y
                     = (trackPoints[k].latitude - centerPoint.latitude) * 111320
           /\ \A k \in DOMAIN elevationData :
                "elevation" \in DOMAIN elevationData[k]
                    => convertToRelativeCoords(elevationData[k].longitude,
                           elevationData[k].latitude, elevationData[k].elevation,
                           centerPoint)
                         = [x |-> (elevationData[k].longitude
                                       - centerPoint.longitude) * 111320,
                            y |-> (elevationData[k].latitude
                                       - centerPoint.latitude) * 111320,
                            z |-> elevationData[k].elevation]
           /\ \A k, m \in DOMAIN trackPoints :
                /\ flightPath[k].x - flightPath[m].x
                     = (trackPoints[k].longitude - trackPoints[m].longitude) * 111320
                /\ flightPath[k].y - flightPath[m].y
                     = (trackPoints[k].latitude - trackPoints[m].latitude) * 111320

\* a track point off the centroid in both coordinates has been projected,
\* and so has a sample of the service
C13_Witness ==
    /\ output = "plot"
    /\ \E k \in DOMAIN trackPoints : flightPath[k].x # 0 /\ flightPath[k].y # 0
    /\ \E k \in DOMAIN elevationData :
         /\ "elevation" \in DOMAIN elevationData[k]
         /\ elevationData[k].longitude # centerPoint.longitude
         /\ elevationData[k].elevation >= Fixed(100)

\* a is approximately v: within one hundredth of v
Approximately(a, v) == Abs(a - v) <= Abs(v) \div 100

\* C14 as stated: for the track [(37.7749, -122.4194, 5), (37.7750,
\* -122.4190, 20)] the centroid is (37.77495, -122.4192) and the first point
\* projects to approximately (x = -0.022 * 111320, y = -0.005 * 111320, z = 5).
C14_ScenarioAsStated ==
    (output = "plot" /\ trackPoints = TrackA)
        => /\ centerPoint = [latitude |-> 3777495, longitude |-> -12241920]
           /\ Approximately(flightPath[1].x, -2200 * 111320)
           /\ Approximately(flightPath[1].y, -500 * 111320)
           /\ flightPath[1].z = Fixed(5)

\* C14: for the track [(37.7749, -122.4194, 5), (37.7750, -122.4190, 20)]
\* the centroid is (37.77495, -122.4192) and the first point projects to
\* approximately (x = -0.0002 * 111320, y = -0.00005 * 111320, z = 5), that
\* is about 22.26 metres west and 5.57 metres south of the centroid.
C14_Scenario ==
    (output = "plot" /\ trackPoints = TrackA)
        => /\ centerPoint = [latitude |-> 3777495, longitude |-> -12241920]
           /\ Approximately(flightPath[1].x, -20 * 111320)
           /\ Approximately(flightPath[1].y, -5 * 111320)
           /\ flightPath[1].z = Fixed(5)

\* the scenario's track is rendered and its first point projected
C14_Witness ==
    /\ output = "plot"
    /\ trackPoints = TrackA
    /\ flightPath[1] = [x |-> -2226400, y |-> -556600, z |-> 500000]

\* C15: within one invocation the batches are strictly sequential: a request
\* is in flight only while the invocation waits at line 125, so at most one
\* at a time; a further request is issued only by the step that ends the
\* delay after the previous response has been received and read; and the
\* requests go out in increasing index order, one batch further each time.
C15_BatchesSequential ==
    [][\A c \in DOMAIN calls :
         LET before == calls[c].requested
             after  == calls'[c].requested
         IN  /\ after # before
                  => /\ calls[c].pc = "delay"
                     /\ calls'[c].pc = "fetch"
                     /\ after = Append(before, before[Len(before)] + BATCH_SIZE)
             /\ (calls'[c].pc = "fetch" /\ calls[c].pc # "fetch")
                  => after # before
             /\ \A k \in DOMAIN after : after[k] = (k - 1) * BATCH_SIZE
             /\ calls'[c].pc = "fetch" => calls'[c].i = after[Len(after)]]_vars

\* the second batch of an invocation has been requested
C15_Witness ==
    \E c \in DOMAIN calls :
        /\ calls[c].requested = << 0, BATCH_SIZE >>
        /\ calls[c].pc = "fetch"
        /\ Len(calls[c].allResults) > 0

\* the batches call c has sent so far, in request order (line 122)
batchesOf(c) ==
    [k \in DOMAIN calls[c].requested |->
        Slice(locationsOf(calls[c].gridPoints), calls[c].requested[k],
              calls[c].requested[k] + BATCH_SIZE)]

RECURSIVE Flatten(_)
Flatten(seqs) ==
    IF Len(seqs) = 0 THEN << >>
    ELSE Flatten(SubSeq(seqs, 1, Len(seqs) - 1)) \o seqs[Len(seqs)]

\* C16: the locations of a grid of n samples are sent in ceil(n / 100)
\* batches: every batch holds at most 100 locations and at least one, every
\* batch but the last holds exactly 100, the batches sent so far are, one
\* after the other, the beginning of the location sequence, and once all
\* batches have been answered they are ceil(n / 100) and make up the whole
\* sequence.
C16_Partition ==
    \A c \in DOMAIN calls :
        LET locations == locationsOf(calls[c].gridPoints)
            n         == Len(locations)
            batches   == batchesOf(c)
            sent      == Flatten(batches)
        IN  /\ \A k \in DOMAIN batches :
                 /\ Len(batches[k]) >= 1
                 /\ Len(batches[k]) <= 100
                 /\ k < (n + 99) \div 100 => Len(batches[k]) = 100
            /\ Len(batches) <= (n + 99) \div 100
            /\ sent = SubSeq(locations, 1, Len(sent))
            /\ calls[c].pc = "done"
                 => /\ Len(batches) = (n + 99) \div 100
                    /\ sent = locations

\* an invocation for a grid of more than 100 samples has sent a full batch
\* and a last batch that is not full, and all were answered
C16_Witness ==
    \E c \in DOMAIN calls :
        /\ calls[c].pc = "done"
        /\ Len(calls[c].gridPoints) > BATCH_SIZE
        /\ Len(batchesOf(c)) = 2
        /\ Len(batchesOf(c)[1]) = BATCH_SIZE
        /\ Len(batchesOf(c)[2]) = Len(calls[c].gridPoints) - BATCH_SIZE

\* a response that lists the results for the locations of its request, one
\* for each and in their order
OrderedPayload == [kind |-> "results", extra |-> 0, elevations |-> TRUE]

\* the service's answer for one grid point
answerFor(feature) == serviceResults(locationsOf(<< feature >>))[1]

\* the results call c has accumulated are the service's answers for the
\* first grid points, in the order of the grid, up to the batch in hand
InRequestOrder(c) ==
    LET n    == Len(calls[c].gridPoints)
        upTo == IF calls[c].pc \in {"fetch", "json"}
                THEN calls[c].i
                ELSE calls[c].i + BATCH_SIZE
    IN  /\ Len(calls[c].allResults) = IF upTo < n THEN upTo ELSE n
        /\ \A k \in DOMAIN calls[c].allResults :
             calls[c].allResults[k] = answerFor(calls[c].gridPoints[k])

\* C17: results are accumulated in request order.  An invocation starts with
\* no results; as long as each response lists its results in the order of
\* the request's locations, the accumulated results stay the service's
\* answers for the grid points so far, in grid order; and when the last batch
\* is done the i-th stored sample is the service's answer for the i-th grid
\* point, for every i.
C17_RequestOrder ==
    [][/\ \A c \in DOMAIN calls' : c \notin DOMAIN calls => InRequestOrder(c)'
       /\ \A c \in DOMAIN calls :
            /\ (/\ calls[c].pc = "json"
                /\ calls'[c].pc = "delay"
                /\ InRequestOrder(c)
                /\ JsonSettles(c, OrderedPayload))
                 => InRequestOrder(c)'
            /\ (/\ calls[c].pc = "delay"
                /\ calls'[c].pc # "delay"
                /\ InRequestOrder(c)
                /\ TimerFires(c))
                 => /\ InRequestOrder(c)'
                    /\ calls'[c].pc = "done"
                         => /\ Len(elevationData') = Len(calls[c].gridPoints)
                            /\ \A i \in DOMAIN elevationData' :
                                 elevationData'[i]
                                   = answerFor(calls[c].gridPoints[i])]_vars

\* all batches of an invocation for more than one batch were answered in
\* order, and the samples stored are the service's answers
C17_Witness ==
    \E c \in DOMAIN calls :
        /\ calls[c].pc = "done"
        /\ dataFrom = [call |-> c, kind |-> "service"]
        /\ Len(calls[c].gridPoints) > BATCH_SIZE
        /\ Len(elevationData) = Len(calls[c].gridPoints)
        /\ \A i \in DOMAIN elevationData :
             elevationData[i] = answerFor(calls[c].gridPoints[i])

\* C18: every cell (i, j) of the HeightField is the elevation of the first
\* sample, in input order, whose projected (x, y) is exactly (xs[j], ys[i]);
\* if there is none, the mean (sum divided by count, rounded as a number is)
\* of the elevations of all samples whose projected x and projected y are
\* each less than 2 * resolution away from xs[j] and ys[i]; and 0 if there
\* is no such sample either.
C18_CellSemantics ==
    LET data   == regrid.elevationData
        center == regrid.centerPoint
        res    == regrid.terrainResolution
        xs     == regrid.terrainData.x
        ys     == regrid.terrainData.y
        px(k)  == (data[k].longitude - center.longitude) * 111320
        py(k)  == (data[k].latitude - center.latitude) * 111320
        dist(a, b) == IF a < b THEN b - a ELSE a - b
    IN  Len(data) > 0
          => \A i \in DOMAIN ys, j \in DOMAIN xs :
               LET cell  == regrid.terrainData.z[i][j]
                   exact == {k \in DOMAIN data : px(k) = xs[j] /\ py(k) = ys[i]}
                   near  == {k \in DOMAIN data :
                                /\ dist(px(k), xs[j]) < 2 * res
                                /\ dist(py(k), ys[i]) < 2 * res}
                   sum   == SumOf([n \in 1..Cardinality(near) |->
                                data[SortAscending(near)[n]].elevation])
               IN  IF exact # {}
                   THEN \E k \in exact :
                          /\ \A m \in exact : k <= m
                          /\ cell = data[k].elevation
                   ELSE IF near # {}
                        THEN 2 * dist(cell * Cardinality(near), sum)
                                <= Cardinality(near)
                        ELSE cell = 0

\* two samples at the same place with different elevations and a third
\* elsewhere: the cell at that place holds the first one's elevation, and a
\* cell without a sample of its own holds a mean that is no sample's elevation
C18_Witness ==
    LET data == regrid.elevationData
    IN  /\ Len(data) = 3
        /\ data[1].longitude = data[2].longitude
        /\ data[1].latitude = data[2].latitude
        /\ data[1].elevation # data[2].elevation
        /\ \E i \in DOMAIN regrid.terrainData.y, j \in DOMAIN regrid.terrainData.x :
             /\ regrid.terrainData.x[j]
                  = (data[1].longitude - regrid.centerPoint.longitude) * 111320
             /\ regrid.terrainData.y[i]
                  = (data[1].latitude - regrid.centerPoint.latitude) * 111320
             /\ regrid.terrainData.z[i][j] = data[1].elevation
        /\ \E i \in DOMAIN regrid.terrainData.y, j \in DOMAIN regrid.terrainData.x :
             /\ regrid.terrainData.z[i][j] # 0
             /\ \A k \in DOMAIN data : regrid.terrainData.z[i][j] # data[k].elevation

\* C19: the axes of the HeightField are exactly the projected x-values and
\* the projected y-values of the samples: xs and ys are strictly ascending,
\* every sample's projected x is in xs and its projected y in ys, and every
\* value of xs and ys is the coordinate of some sample.
C19_AxesAreSampleCoordinates ==
    LET data   == regrid.elevationData
        center == regrid.centerPoint
        xs     == regrid.terrainData.x
        ys     == regrid.terrainData.y
    IN  /\ \A a, b \in DOMAIN xs : a < b => xs[a] < xs[b]
        /\ \A a, b \in DOMAIN ys : a < b => ys[a] < ys[b]
        /\ {xs[j] : j \in DOMAIN xs}
             = {(data[k].longitude - center.longitude) * 111320 : k \in DOMAIN data}
        /\ {ys[i] : i \in DOMAIN ys}
             = {(data[k].latitude - center.latitude) * 111320 : k \in DOMAIN data}

\* three samples given from east to west, two of them on the same latitude:
\* three x-values in the other order and two y-values
C19_Witness ==
    LET data == regrid.elevationData
    IN  /\ Len(data) = 3
        /\ data[1].longitude > data[2].longitude
        /\ data[2].longitude > data[3].longitude
        /\ data[1].latitude = data[3].latitude
        /\ data[1].latitude > data[2].latitude
        /\ Len(regrid.terrainData.x) = 3
        /\ Len(regrid.terrainData.y) = 2
        /\ regrid.terrainData.x[1] < 0
        /\ regrid.terrainData.x[3] > 0

\* C20: no retry.  Within one invocation no batch is requested twice; the
\* step in which a request fails or its response cannot be used issues no
\* request and finishes the invocation with the fallback; and a finished
\* invocation does nothing any more.
C20_NoRetry ==
    [][\A c \in DOMAIN calls :
         /\ \A a, b \in DOMAIN calls'[c].requested :
              a # b => calls'[c].requested[a] # calls'[c].requested[b]
         /\ (\/ \E outcome \in FetchOutcomes \ {"ok"} : FetchSettles(c, outcome)
             \/ \E payload \in Payloads :
                  payload.kind # "results" /\ JsonSettles(c, payload))
              => /\ calls'[c].requested = calls[c].requested
                 /\ calls'[c].pc = "failed"
                 /\ dataFrom' = [call |-> c, kind |-> "fallback"]
         /\ calls[c].pc \in {"failed", "done"} => calls'[c] = calls[c]]_vars

\* an invocation failed at its second batch, having requested each batch once
C20_Witness ==
    \E c \in DOMAIN calls :
        /\ calls[c].pc = "failed"
        /\ calls[c].requested = << 0, BATCH_SIZE >>
        /\ dataFrom = [call |-> c, kind |-> "fallback"]

\* C21: the loading flag tracks the in-flight state: isLoading is true if
\* and only if some invocation has started and not yet finished (succeeded
\* or fallen back), also when a newer invocation was started while an older
\* one was outstanding and the older one finishes first.
C21_LoadingIffInFlight ==
    output = "plot"
        => (isLoading <=> \E c \in DOMAIN calls : ~Finished(c))

\* C22: every invocation started on a non-empty grid eventually finishes,
\* provided requests are answered and timers fire: it ends in success or in
\* fallback, and the step that ends it sets elevationData to that
\* invocation's result and isLoading to false.  (An invocation stays in
\* calls and a finished one stays finished, so that it eventually finishes
\* is that from some time on it is not unfinished.)
C22_EveryCallFinishes ==
    /\ \A c \in 1..MaxCalls : <>[](c \in DOMAIN calls => Finished(c))
    /\ [][\A c \in DOMAIN calls :
            (~Finished(c) /\ calls'[c].pc \in {"done", "failed"})
                => /\ dataFrom'.call = c
                   /\ dataFrom'.kind
                        = (IF calls'[c].pc = "done" THEN "service" ELSE "fallback")
                   /\ elevationData' = resultOf(c)'
                   /\ isLoading' = FALSE]_vars

\* two invocations were started and both have finished, one in success and
\* one in fallback
C22_Witness ==
    /\ Len(calls) = 2
    /\ \E c, d \in DOMAIN calls : calls[c].pc = "done" /\ calls[d].pc = "failed"
    /\ Len(elevationData) > 0
    /\ isLoading = FALSE

====
